---- MODULE Spec2Model ----
(***************************************************************************)
(* The connection pool of openclaw-mcp-adapter (src/mcp-client.ts,         *)
(* McpClientPool) and the lazily connecting tool entry point of            *)
(* src/index.ts, as a state machine.                                       *)
(*                                                                         *)
(* Every async method is cut at its awaits: one action per stretch of code *)
(* that runs without suspending.  A transport and the ClientEntry built    *)
(* around it share one id (connect creates exactly one of each).           *)
(***************************************************************************)
EXTENDS Integers, Sequences, FiniteSets, TLC

\* ---------------------------------------------------------------- bounds
\* Transports the pool may create in one run (caps connect).
MaxTransports == 3
\* Operations the callers start in one run.
MaxOps == 2

\* The concurrent callers of the pool (tool calls of the host): two, so that
\* operations overlap on one server and run side by side on two.
Procs == {1, 2}
TIds == 1..MaxTransports

\* ------------------------------------------------- configuration (config.ts)
\* ServerConfig.name of the configured servers.
Servers == {"s1", "s2"}

\* ServerConfig.transport of each configured server.
TransportOf(s) == IF s = "s1" THEN "stdio" ELSE "http"

\* ------------------------------------------------------ JavaScript values
\* A value is [tag, own]: tag is its runtime kind, own maps each field name
\* to the kind of the own property of that name ("absent": no such own
\* property).  Only objects and arrays carry own properties.
Fields == {"city", "toString"}

\* Property names every object inherits from Object.prototype.
Inherited == {"toString"}

NoOwn == [f \in Fields |-> "absent"]

JsPrim(tag) == [tag |-> tag, own |-> NoOwn]
JsObj(own) == [tag |-> "object", own |-> own]
JsArr == [tag |-> "array", own |-> NoOwn]

\* typeof v
TypeOfTag(tag) ==
  IF tag \in {"null", "array", "object"} THEN "object" ELSE tag

\* `f in obj` for an object or array obj: own or inherited property.
HasIn(obj, f) == obj.own[f] # "absent" \/ f \in Inherited

\* obj[f]: the kind of the value read (an inherited method is a function).
GetField(obj, f) ==
  IF obj.own[f] # "absent" THEN obj.own[f]
  ELSE IF f \in Inherited THEN "function" ELSE "undefined"

\* ------------------------------------------------------------ ToolSchema
\* required: [kind, names]; kind "absent" (no such key), "list" (an array of
\* names) or "notIterable" (a truthy value that is no iterable, e.g. true).
\* properties: the Object.entries sequence of [field, decl]; decl is
\* "null" (the declaration is null), "notype" (no type key) or the type.
ReqAbsent == [kind |-> "absent", names |-> <<>>]
ReqList(names) == [kind |-> "list", names |-> names]
ReqNotIterable == [kind |-> "notIterable", names |-> <<>>]

NoSchema == [onFile |-> FALSE, required |-> ReqAbsent, hasProps |-> FALSE, properties |-> <<>>]
Schema(req, hasProps, props) ==
  [onFile |-> TRUE, required |-> req, hasProps |-> hasProps, properties |-> props]

Decl(f, d) == [field |-> f, decl |-> d]

Missing(f) == [kind |-> "missing", field |-> f, expected |-> "", actual |-> ""]
Mismatch(f, e, a) == [kind |-> "mismatch", field |-> f, expected |-> e, actual |-> a]

\* The loop over schema.required: one warning per name not `in` obj.
RECURSIVE RequiredLoop(_, _, _)
RequiredLoop(names, obj, i) ==
  IF i > Len(names) THEN <<>>
  ELSE (IF ~HasIn(obj, names[i]) THEN <<Missing(names[i])>> ELSE <<>>)
       \o RequiredLoop(names, obj, i + 1)

\* The loop over Object.entries(schema.properties).  Reading prop.type of a
\* null declaration throws; the warnings already logged stay logged.
RECURSIVE PropertiesLoop(_, _, _)
PropertiesLoop(props, obj, i) ==
  IF i > Len(props) THEN [threw |-> FALSE, diags |-> <<>>]
  ELSE LET field == props[i].field
           decl == props[i].decl
           val == GetField(obj, field)
       IN IF ~HasIn(obj, field)
          THEN PropertiesLoop(props, obj, i + 1)
          ELSE IF decl = "null"
          THEN [threw |-> TRUE, diags |-> <<>>]
          ELSE LET checked == decl # "notype" /\ val \notin {"null", "undefined"}
                   actual == TypeOfTag(val)
                   expected == IF decl = "integer" THEN "number" ELSE decl
                   here == IF checked /\ actual # expected
                           THEN <<Mismatch(field, decl, actual)>> ELSE <<>>
                   rest == PropertiesLoop(props, obj, i + 1)
               IN [threw |-> rest.threw, diags |-> here \o rest.diags]

\* warnOnSchemaViolations(serverName, toolName, args, schemas): the warnings
\* it logs, and whether it throws.
warnOnSchemaViolations(toolName, args, schemas) ==
  LET schema == schemas[toolName] IN
  IF ~schema.onFile \/ TypeOfTag(args.tag) # "object" \/ args.tag = "null"
  THEN [threw |-> FALSE, diags |-> <<>>]
  ELSE IF schema.required.kind = "notIterable"
  THEN [threw |-> TRUE, diags |-> <<>>]
  ELSE LET req == IF schema.required.kind = "list"
                  THEN RequiredLoop(schema.required.names, args, 1) ELSE <<>>
           props == IF schema.hasProps
                    THEN PropertiesLoop(schema.properties, args, 1)
                    ELSE [threw |-> FALSE, diags |-> <<>>]
       IN [threw |-> props.threw, diags |-> req \o props.diags]

\* ------------------------------------------------------ errors of a call
\* The failures client.callTool can reject with, and String(err) of each as
\* its words.
Errors == {"ConnClosed", "ToolError"}

StringOf(err) ==
  CASE err = "ConnClosed" -> <<"McpError:", "Connection", "closed">>
    [] err = "EPIPE" -> <<"Error:", "write", "EPIPE">>
    [] err = "ToolError" -> <<"McpError:", "Unknown", "tool">>
    [] OTHER -> <<"Error:", err>>

Includes(msg, word) == \E i \in 1..Len(msg) : msg[i] = word

isConnectionError(err) ==
  LET msg == StringOf(err) IN
  \/ Includes(msg, "closed") \/ Includes(msg, "ECONNREFUSED") \/ Includes(msg, "EPIPE")
  \/ Includes(msg, "ETIMEDOUT") \/ Includes(msg, "ECONNRESET")
  \/ Includes(msg, "ENOTFOUND") \/ Includes(msg, "EHOSTUNREACH")

\* -------------------------------------------------- what the servers answer
Tools == {"weather", "ping"}

GoodSchema == Schema(ReqList(<<"city">>), TRUE, <<Decl("city", "string")>>)
NullDeclSchema == Schema(ReqAbsent, TRUE, <<Decl("city", "null")>>)

\* result.tools of a discovery on server s: [name, hasInputSchema, inputSchema].
\* s1 declares weather properly and ping without an input schema; s2 declares
\* weather with a null property declaration.
Discovery(s) ==
  IF s = "s1"
  THEN << [name |-> "weather", hasSchema |-> TRUE, inputSchema |-> GoodSchema],
          [name |-> "ping", hasSchema |-> FALSE, inputSchema |-> NoSchema] >>
  ELSE << [name |-> "weather", hasSchema |-> TRUE, inputSchema |-> NullDeclSchema] >>

\* The arguments callers pass in the pool model.
ArgsCityNumber == JsObj([NoOwn EXCEPT !["city"] = "number"])

EmptySchemas == [t \in Tools |-> NoSchema]

\* ------------------------------------------------------------------ state
VARIABLES
  clients,      \* McpClientPool.clients: server name -> entry id, 0 = no entry
  order,        \* the keys of the clients Map in insertion order
  tstate,       \* transport: none | handshake | open | closing | closed
  towner,       \* config.name the transport was created for
  handlers,     \* transport.onerror/onclose set by connect
  connected,    \* ClientEntry.connected
  toolSchemas,  \* ClientEntry.toolSchemas
  nextT,        \* next transport id
  nOps,         \* operations started so far
  pc,           \* where each caller is suspended
  op,           \* the operation each caller runs
  srv, tool, args,   \* its arguments
  ent,          \* the entry local of listTools / callTool (newEntry on retry)
  tnew,         \* the transport local of connect
  ahead,        \* closeAll: the keys its keys() iterator has yet to yield
  result,       \* what the operation returned or threw
  lazy,         \* the caller is the lazily connecting entry point, before its invoke
  lastErr,      \* the rejection the catch block of callTool holds, "none" if none
  diag,         \* the warnings this invoke logged
  nCalls,       \* client.callTool requests issued by this operation
  nConn         \* connect() calls made by this operation

poolVars == <<clients, order, connected, toolSchemas>>
transportVars == <<tstate, towner, handlers, nextT>>
procVars == <<pc, op, lazy, srv, tool, args, ent, tnew, ahead, result, lastErr, diag,
              nCalls, nConn>>
vars == <<poolVars, transportVars, procVars, nOps>>

NoResult == [threw |-> FALSE, val |-> "none"]
Returned(v) == [threw |-> FALSE, val |-> v]
Thrown(e) == [threw |-> TRUE, val |-> e]

Init ==
  /\ clients = [s \in Servers |-> 0]
  /\ order = <<>>
  /\ tstate = [t \in TIds |-> "none"]
  /\ towner = [t \in TIds |-> "none"]
  /\ handlers = [t \in TIds |-> FALSE]
  /\ connected = [t \in TIds |-> FALSE]
  /\ toolSchemas = [t \in TIds |-> EmptySchemas]
  /\ nextT = 1
  /\ nOps = 0
  /\ pc = [p \in Procs |-> "idle"]
  /\ op = [p \in Procs |-> "none"]
  /\ lazy = [p \in Procs |-> FALSE]
  /\ srv = [p \in Procs |-> "none"]
  /\ tool = [p \in Procs |-> "none"]
  /\ args = [p \in Procs |-> JsPrim("undefined")]
  /\ ent = [p \in Procs |-> 0]
  /\ tnew = [p \in Procs |-> 0]
  /\ ahead = [p \in Procs |-> {}]
  /\ result = [p \in Procs |-> NoResult]
  /\ lastErr = [p \in Procs |-> "none"]
  /\ diag = [p \in Procs |-> <<>>]
  /\ nCalls = [p \in Procs |-> 0]
  /\ nConn = [p \in Procs |-> 0]

\* A getStatus that takes a server without an entry for connected.
getStatusAssumeUp(s) == IF clients[s] = 0 THEN TRUE ELSE connected[clients[s]]

\* getStatus(serverName).connected
getStatus(s) == IF clients[s] = 0 THEN FALSE ELSE connected[clients[s]]

\* A markDisconnected that marks nothing, one that marks every entry, and
\* one that flips the flag of the entry.
markDisconnectedNever(s) == connected
markDisconnectedAll(s) == [t \in TIds |-> FALSE]
markDisconnectedFlip(s) ==
  IF clients[s] # 0 THEN [connected EXCEPT ![clients[s]] = ~@] ELSE connected

\* markDisconnected(serverName): the connected flags afterwards.
markDisconnected(s) ==
  IF clients[s] # 0 THEN [connected EXCEPT ![clients[s]] = FALSE] ELSE connected

\* transport.close(): the transport states afterwards.  A transport with
\* listeners still owes its onclose callback ("closing").
closeTransport(t) ==
  IF tstate[t] = "open"
  THEN [tstate EXCEPT ![t] = IF handlers[t] THEN "closing" ELSE "closed"]
  ELSE tstate

\* await entry.transport.close?.() inside its try: the transport states it
\* can leave.  It resolves, or it rejects, which the caller swallows; a close
\* that rejected may have left the transport as it was.
closeOutcomes(t) == {closeTransport(t), tstate}

\* An entry object lives while the Map or a suspended frame refers to it.
held(t, cl, en) == (\E s \in Servers : cl[s] = t) \/ (\E p \in Procs : en[p] = t)

\* The transports and entries after a step that leaves the transport states
\* ts, owners tw, listeners h, connected flags c and schema tables sch, with
\* the Map cl and the entry locals en.  An entry nothing refers to is
\* garbage and has no fields; so is a closed transport without an entry.
settle(ts, tw, h, c, sch, cl, en) ==
  LET gone(t) == ts[t] = "closed" /\ ~held(t, cl, en) IN
  /\ tstate' = ts
  /\ towner' = [t \in TIds |-> IF gone(t) THEN "none" ELSE tw[t]]
  /\ handlers' = [t \in TIds |-> ~gone(t) /\ h[t]]
  /\ connected' = [t \in TIds |-> held(t, cl, en) /\ c[t]]
  /\ toolSchemas' = [t \in TIds |-> IF held(t, cl, en) THEN sch[t] ELSE EmptySchemas]

\* clients.set(s, ...) and clients.delete(s) on the key order and on the
\* live keys() iterators of the closeAll calls in progress.
SeqWithout(q, s) == SelectSeq(q, LAMBDA x : x # s)
orderAfterSet(s) == IF clients[s] = 0 THEN Append(order, s) ELSE order
aheadAfterSet(s) ==
  [p \in Procs |-> IF clients[s] = 0 /\ op[p] = "closeAll" /\ pc[p] = "closing"
                   THEN ahead[p] \cup {s} ELSE ahead[p]]
aheadAfterDelete(s) == [p \in Procs |-> ahead[p] \ {s}]

\* A caller whose previous operation is settled starts operation o on server
\* s: one more of the MaxOps of the run.  The callers are interchangeable, so
\* the first operation of a run is taken to be caller 1's.
startOp(p, o, s) ==
  /\ pc[p] \in {"idle", "done"}
  /\ p = 1 \/ op[1] # "none"
  /\ nOps < MaxOps
  /\ nOps' = nOps + 1
  /\ op' = [op EXCEPT ![p] = o]
  /\ srv' = [srv EXCEPT ![p] = s]
  /\ lastErr' = [lastErr EXCEPT ![p] = "none"]

\* -------------------------------------------------------------- fragments
\* connect, up to its await of client.connect(transport): a new transport
\* for config s, in its handshake.  ts: the transport states before.
transportsAfterCreate(ts) == [ts EXCEPT ![nextT] = "handshake"]
ownersAfterCreate(s) == [towner EXCEPT ![nextT] = s]

beginConnect(p, before) ==
  /\ nextT <= MaxTransports
  /\ nextT' = nextT + 1
  /\ tnew' = [tnew EXCEPT ![p] = nextT]
  /\ nConn' = [nConn EXCEPT ![p] = before + 1]

\* The listeners connect sets on transport t: for a stdio transport only.
handlersAfterConnect(t) == [handlers EXCEPT ![t] = (TransportOf(towner[t]) = "stdio")]

\* The entry connect builds: connected: true, toolSchemas: new Map().
entryConnected(t) == [connected EXCEPT ![t] = TRUE]
\* An entry that takes over the schema Map of the entry it replaces.
entrySchemasKept(t) ==
  [toolSchemas EXCEPT ![t] = IF clients[towner[t]] # 0 THEN toolSchemas[clients[towner[t]]]
                             ELSE EmptySchemas]

entrySchemas(t) == [toolSchemas EXCEPT ![t] = EmptySchemas]

\* connect, after the handshake: the listeners and clients.set.
\* en: the entry locals of the callers once this step is over.
finishConnect(p, en) ==
  LET t == tnew[p]
      s == towner[t]
  IN /\ tstate[t] = "handshake"
     /\ clients' = [clients EXCEPT ![s] = t]
     /\ order' = orderAfterSet(s)
     /\ ahead' = aheadAfterSet(s)
     /\ ent' = en
     /\ settle([tstate EXCEPT ![t] = "open"], towner, handlersAfterConnect(t),
               entryConnected(t), entrySchemas(t), clients', en)
     /\ tnew' = [tnew EXCEPT ![p] = 0]
     /\ UNCHANGED nextT

\* The loop of listTools over result.tools: last declaration of a name wins.
RECURSIVE storeSchemas(_, _, _)
storeSchemas(schemas, tools, i) ==
  IF i > Len(tools) THEN schemas
  ELSE storeSchemas(
         IF tools[i].hasSchema
         THEN [schemas EXCEPT ![tools[i].name] = tools[i].inputSchema]
         ELSE schemas,
         tools, i + 1)

\* callTool, up to its first await of entry.client.callTool(...), reading
\* the schema tables sch.  Sets the caller's entry local itself.
issueCall(p, s, tl, a, sch) ==
  IF clients[s] = 0
  THEN /\ pc' = [pc EXCEPT ![p] = "done"]
       /\ result' = [result EXCEPT ![p] = Thrown("UnknownServer")]
       /\ ent' = [ent EXCEPT ![p] = 0]
       /\ diag' = [diag EXCEPT ![p] = <<>>]
       /\ nCalls' = [nCalls EXCEPT ![p] = 0]
  ELSE LET w == warnOnSchemaViolations(tl, a, sch[clients[s]]) IN
       /\ diag' = [diag EXCEPT ![p] = w.diags]
       /\ IF w.threw
          THEN /\ pc' = [pc EXCEPT ![p] = "done"]
               /\ result' = [result EXCEPT ![p] = Thrown("TypeError")]
               /\ ent' = [ent EXCEPT ![p] = 0]
               /\ nCalls' = [nCalls EXCEPT ![p] = 0]
          ELSE /\ pc' = [pc EXCEPT ![p] = "calling"]
               /\ result' = [result EXCEPT ![p] = NoResult]
               /\ ent' = [ent EXCEPT ![p] = clients[s]]
               /\ nCalls' = [nCalls EXCEPT ![p] = 1]

\* ---------------------------------------------------------------- connect
Connect(p, s) ==
  /\ startOp(p, "connect", s)
  /\ beginConnect(p, 0)
  /\ settle(transportsAfterCreate(tstate), ownersAfterCreate(s), handlers, connected,
            toolSchemas, clients, ent)
  /\ pc' = [pc EXCEPT ![p] = "connecting"]
  /\ result' = [result EXCEPT ![p] = NoResult]
  /\ diag' = [diag EXCEPT ![p] = <<>>]
  /\ nCalls' = [nCalls EXCEPT ![p] = 0]
  /\ UNCHANGED <<clients, order, lazy, tool, args, ent, ahead>>

\* The handshake of a connect completes (called directly, by the lazy entry
\* point, or by reconnect); the caller runs on to its next await.
ConnectOk(p) ==
  /\ pc[p] \in {"connecting", "rc_connecting"}
  /\ CASE pc[p] = "rc_connecting" ->
            \* callTool after reconnect: newEntry and the single retry
            /\ finishConnect(p, [ent EXCEPT ![p] = tnew[p]])
            /\ pc' = [pc EXCEPT ![p] = "retrying"]
            /\ nCalls' = [nCalls EXCEPT ![p] = @ + 1]
            /\ UNCHANGED <<op, result, nConn>>
       [] pc[p] = "connecting" /\ lazy[p] ->
            \* index.ts: await pool.listTools(server.name)
            /\ finishConnect(p, [ent EXCEPT ![p] = tnew[p]])
            /\ pc' = [pc EXCEPT ![p] = "listing"]
            /\ op' = [op EXCEPT ![p] = "listTools"]
            /\ nConn' = [nConn EXCEPT ![p] = 0]
            /\ UNCHANGED <<result, nCalls>>
       [] OTHER ->
            /\ finishConnect(p, ent)
            /\ pc' = [pc EXCEPT ![p] = "done"]
            /\ result' = [result EXCEPT ![p] = Returned("client")]
            /\ UNCHANGED <<op, nCalls, nConn>>
  /\ UNCHANGED <<lazy, srv, tool, args, lastErr, diag, nOps>>

\* The handshake fails: client.connect rejects, nothing is registered.
ConnectFail(p) ==
  /\ pc[p] \in {"connecting", "rc_connecting"}
  /\ tstate[tnew[p]] = "handshake"
  /\ settle([tstate EXCEPT ![tnew[p]] = "closed"], towner, handlers, connected,
            toolSchemas, clients, ent)
  /\ tnew' = [tnew EXCEPT ![p] = 0]
  /\ pc' = [pc EXCEPT ![p] = "done"]
  /\ result' = [result EXCEPT ![p] = Thrown("ConnectionError")]
  /\ lazy' = [lazy EXCEPT ![p] = FALSE]
  /\ UNCHANGED <<clients, order, nextT, op, srv, tool, args, ent, ahead, lastErr, diag,
                 nCalls, nConn, nOps>>

\* -------------------------------------------------------------- listTools
\* listTools, up to its await of entry.client.listTools().
ListTools(p, s) ==
  /\ startOp(p, "listTools", s)
  /\ IF clients[s] = 0
     THEN /\ pc' = [pc EXCEPT ![p] = "done"]
          /\ result' = [result EXCEPT ![p] = Thrown("UnknownServer")]
          /\ UNCHANGED ent
     ELSE /\ pc' = [pc EXCEPT ![p] = "listing"]
          /\ result' = [result EXCEPT ![p] = NoResult]
          /\ ent' = [ent EXCEPT ![p] = clients[s]]
  /\ diag' = [diag EXCEPT ![p] = <<>>]
  /\ nCalls' = [nCalls EXCEPT ![p] = 0]
  /\ nConn' = [nConn EXCEPT ![p] = 0]
  /\ UNCHANGED <<poolVars, transportVars, lazy, tool, args, tnew, ahead>>

\* The discovery resolves: the schemas go into the entry listTools holds.
ListOk(p) ==
  /\ pc[p] = "listing"
  /\ tstate[ent[p]] = "open"
  /\ LET sch == [toolSchemas EXCEPT
                   ![ent[p]] = storeSchemas(@, Discovery(towner[ent[p]]), 1)]
     IN /\ IF lazy[p]
           THEN \* index.ts: await pool.callTool(server.name, tool.name, params)
                /\ issueCall(p, srv[p], tool[p], args[p], sch)
                /\ op' = [op EXCEPT ![p] = "callTool"]
           ELSE /\ pc' = [pc EXCEPT ![p] = "done"]
                /\ result' = [result EXCEPT ![p] = Returned("tools")]
                /\ ent' = [ent EXCEPT ![p] = 0]
                /\ UNCHANGED <<op, diag, nCalls>>
        /\ settle(tstate, towner, handlers, connected, sch, clients, ent')
  /\ lazy' = [lazy EXCEPT ![p] = FALSE]
  /\ UNCHANGED <<clients, order, nextT, srv, tool, args, tnew, ahead, lastErr, nConn, nOps>>

\* The discovery rejects: listTools throws what the client threw.
ListFail(p, err) ==
  /\ pc[p] = "listing"
  /\ ent' = [ent EXCEPT ![p] = 0]
  /\ settle(tstate, towner, handlers, connected, toolSchemas, clients, ent')
  /\ pc' = [pc EXCEPT ![p] = "done"]
  /\ result' = [result EXCEPT ![p] = Thrown(err)]
  /\ lazy' = [lazy EXCEPT ![p] = FALSE]
  /\ UNCHANGED <<clients, order, nextT, op, srv, tool, args, tnew, ahead, lastErr, diag,
                 nCalls, nConn, nOps>>

\* --------------------------------------------------------------- callTool
CallTool(p, s, tl, a) ==
  /\ startOp(p, "callTool", s)
  /\ issueCall(p, s, tl, a, toolSchemas)
  /\ tool' = [tool EXCEPT ![p] = tl]
  /\ args' = [args EXCEPT ![p] = a]
  /\ nConn' = [nConn EXCEPT ![p] = 0]
  /\ UNCHANGED <<poolVars, transportVars, lazy, tnew, ahead>>

\* The tool entry point registered from the cache (index.ts execute):
\* connect and rediscover first when getStatus says not connected.
Execute(p, s, tl, a) ==
  /\ startOp(p, IF getStatus(s) THEN "callTool" ELSE "connect", s)
  /\ tool' = [tool EXCEPT ![p] = tl]
  /\ args' = [args EXCEPT ![p] = a]
  /\ IF ~getStatus(s)
     THEN \* await pool.connect(server)
          /\ beginConnect(p, 0)
          /\ settle(transportsAfterCreate(tstate), ownersAfterCreate(s), handlers,
                    connected, toolSchemas, clients, ent)
          /\ lazy' = [lazy EXCEPT ![p] = TRUE]
          /\ pc' = [pc EXCEPT ![p] = "connecting"]
          /\ result' = [result EXCEPT ![p] = NoResult]
          /\ diag' = [diag EXCEPT ![p] = <<>>]
          /\ nCalls' = [nCalls EXCEPT ![p] = 0]
          /\ UNCHANGED ent
     ELSE /\ issueCall(p, s, tl, a, toolSchemas)
          /\ nConn' = [nConn EXCEPT ![p] = 0]
          /\ UNCHANGED <<connected, toolSchemas, transportVars, lazy, tnew>>
  /\ UNCHANGED <<clients, order, ahead>>

\* The tool entry point registered by the service start after a live
\* discovery (index.ts start, execute): pool.callTool and nothing else.
ExecuteLive(p, s, tl, a) == CallTool(p, s, tl, a)

\* A call attempt resolves: a result, which may carry isError: true.
CallOk(p, r) ==
  /\ pc[p] \in {"calling", "retrying"}
  /\ tstate[ent[p]] = "open"
  /\ pc' = [pc EXCEPT ![p] = "done"]
  /\ result' = [result EXCEPT ![p] = Returned(r)]
  /\ ent' = [ent EXCEPT ![p] = 0]
  /\ settle(tstate, towner, handlers, connected, toolSchemas, clients, ent')
  /\ UNCHANGED <<clients, order, nextT, op, lazy, srv, tool, args, tnew, ahead, lastErr,
                 diag, nCalls, nConn, nOps>>

\* A catch block that reconnects whatever the error, and one that does not
\* look at the connected flag.
shouldReconnectAlways(flag, err) == TRUE
shouldReconnectFlagBlind(flag, err) == isConnectionError(err)

\* The condition of the catch block of callTool:
\* !entry.connected || this.isConnectionError(err)
shouldReconnect(flag, err) == ~flag \/ isConnectionError(err)

\* The first attempt rejects with err: the catch block, and reconnect up to
\* its await of entry.transport.close().
CallFail(p, err) ==
  /\ pc[p] = "calling"
  /\ lastErr' = [lastErr EXCEPT ![p] = err]
  /\ ent' = [ent EXCEPT ![p] = 0]
  /\ IF shouldReconnect(connected[ent[p]], err)
     THEN IF clients[srv[p]] = 0
          THEN \* reconnect returns at once, newEntry is undefined
               /\ pc' = [pc EXCEPT ![p] = "done"]
               /\ result' = [result EXCEPT ![p] = Thrown("ReconnectFailed")]
               /\ settle(tstate, towner, handlers, connected, toolSchemas, clients, ent')
          ELSE /\ pc' = [pc EXCEPT ![p] = "rc_closing"]
               /\ \E ts \in closeOutcomes(clients[srv[p]]) :
                    settle(ts, towner, handlers, connected, toolSchemas, clients, ent')
               /\ UNCHANGED result
     ELSE /\ pc' = [pc EXCEPT ![p] = "done"]
          /\ result' = [result EXCEPT ![p] = Thrown(err)]
          /\ settle(tstate, towner, handlers, connected, toolSchemas, clients, ent')
  /\ UNCHANGED <<clients, order, nextT, op, lazy, srv, tool, args, tnew, ahead, diag,
                 nCalls, nConn, nOps>>

\* reconnect after its await of close: clients.delete, then connect up to
\* the handshake.
ReconnectClosed(p) ==
  /\ pc[p] = "rc_closing"
  /\ clients' = [clients EXCEPT ![srv[p]] = 0]
  /\ order' = SeqWithout(order, srv[p])
  /\ ahead' = aheadAfterDelete(srv[p])
  /\ beginConnect(p, nConn[p])
  /\ settle(transportsAfterCreate(tstate), ownersAfterCreate(srv[p]), handlers, connected,
            toolSchemas, clients', ent)
  /\ pc' = [pc EXCEPT ![p] = "rc_connecting"]
  /\ lastErr' = [lastErr EXCEPT ![p] = "none"]
  /\ UNCHANGED <<op, lazy, srv, tool, args, ent, result, diag, nCalls, nOps>>

\* A retry that handles its failure as the first attempt does: reconnect and
\* try again.
RetryFailAgain(p, err) ==
  /\ pc[p] = "retrying"
  /\ lastErr' = [lastErr EXCEPT ![p] = err]
  /\ ent' = [ent EXCEPT ![p] = 0]
  /\ IF clients[srv[p]] # 0 /\ shouldReconnect(connected[ent[p]], err)
     THEN /\ pc' = [pc EXCEPT ![p] = "rc_closing"]
          /\ settle(closeTransport(clients[srv[p]]), towner, handlers, connected,
                    toolSchemas, clients, ent')
          /\ UNCHANGED result
     ELSE /\ pc' = [pc EXCEPT ![p] = "done"]
          /\ result' = [result EXCEPT ![p] = Thrown(err)]
          /\ settle(tstate, towner, handlers, connected, toolSchemas, clients, ent')
  /\ UNCHANGED <<clients, order, nextT, op, lazy, srv, tool, args, tnew, ahead, diag,
                 nCalls, nConn, nOps>>

\* The retried attempt rejects: the error goes to the caller.
RetryFail(p, err) ==
  /\ pc[p] = "retrying"
  /\ lastErr' = [lastErr EXCEPT ![p] = err]
  /\ ent' = [ent EXCEPT ![p] = 0]
  /\ settle(tstate, towner, handlers, connected, toolSchemas, clients, ent')
  /\ pc' = [pc EXCEPT ![p] = "done"]
  /\ result' = [result EXCEPT ![p] = Thrown(err)]
  /\ UNCHANGED <<clients, order, nextT, op, lazy, srv, tool, args, tnew, ahead, diag,
                 nCalls, nConn, nOps>>

\* ------------------------------------------------------- close / closeAll
\* An iterator that yields nothing after its first key.
firstInNone(q, S) == "none"

\* The first key of the sequence q that is in the set S, "none" if none.
firstIn(q, S) ==
  LET hits == SelectSeq(q, LAMBDA x : x \in S) IN
  IF hits = <<>> THEN "none" ELSE Head(hits)

\* A close that, like listTools and callTool, refuses a server without entry.
CloseRefusing(p, s) ==
  /\ startOp(p, "close", s)
  /\ IF clients[s] = 0
     THEN /\ pc' = [pc EXCEPT ![p] = "done"]
          /\ result' = [result EXCEPT ![p] = Thrown("UnknownServer")]
          /\ UNCHANGED <<tstate, towner, handlers, connected, toolSchemas>>
     ELSE /\ pc' = [pc EXCEPT ![p] = "closing"]
          /\ result' = [result EXCEPT ![p] = NoResult]
          /\ \E ts \in closeOutcomes(clients[s]) :
               settle(ts, towner, handlers, connected, toolSchemas, clients, ent)
  /\ diag' = [diag EXCEPT ![p] = <<>>]
  /\ nCalls' = [nCalls EXCEPT ![p] = 0]
  /\ nConn' = [nConn EXCEPT ![p] = 0]
  /\ UNCHANGED <<clients, order, nextT, lazy, tool, args, ent, tnew, ahead>>

\* close(serverName), up to its await of transport.close().
Close(p, s) ==
  /\ startOp(p, "close", s)
  /\ IF clients[s] = 0
     THEN /\ pc' = [pc EXCEPT ![p] = "done"]
          /\ result' = [result EXCEPT ![p] = Returned("void")]
          /\ UNCHANGED <<tstate, towner, handlers, connected, toolSchemas>>
     ELSE /\ pc' = [pc EXCEPT ![p] = "closing"]
          /\ result' = [result EXCEPT ![p] = NoResult]
          /\ \E ts \in closeOutcomes(clients[s]) :
               settle(ts, towner, handlers, connected, toolSchemas, clients, ent)
  /\ diag' = [diag EXCEPT ![p] = <<>>]
  /\ nCalls' = [nCalls EXCEPT ![p] = 0]
  /\ nConn' = [nConn EXCEPT ![p] = 0]
  /\ UNCHANGED <<clients, order, nextT, lazy, tool, args, ent, tnew, ahead>>

\* closeAll: for (const name of this.clients.keys()) await this.close(name),
\* up to the await in the first close.
CloseAll(p) ==
  /\ startOp(p, "closeAll", IF order = <<>> THEN "none" ELSE Head(order))
  /\ IF order = <<>>
     THEN /\ pc' = [pc EXCEPT ![p] = "done"]
          /\ result' = [result EXCEPT ![p] = Returned("void")]
          /\ UNCHANGED <<tstate, towner, handlers, connected, toolSchemas, ahead>>
     ELSE /\ pc' = [pc EXCEPT ![p] = "closing"]
          /\ result' = [result EXCEPT ![p] = NoResult]
          /\ ahead' = [ahead EXCEPT ![p] = {order[i] : i \in 2..Len(order)}]
          /\ \E ts \in closeOutcomes(clients[Head(order)]) :
               settle(ts, towner, handlers, connected, toolSchemas, clients, ent)
  /\ diag' = [diag EXCEPT ![p] = <<>>]
  /\ nCalls' = [nCalls EXCEPT ![p] = 0]
  /\ nConn' = [nConn EXCEPT ![p] = 0]
  /\ UNCHANGED <<clients, order, nextT, lazy, tool, args, ent, tnew>>

\* close after its await: clients.delete; closeAll runs on into the close
\* of the next key its iterator yields.
CloseDone(p) ==
  /\ pc[p] = "closing"
  /\ clients' = [clients EXCEPT ![srv[p]] = 0]
  /\ order' = SeqWithout(order, srv[p])
  /\ LET k == IF op[p] = "closeAll" THEN firstIn(order', ahead[p] \ {srv[p]}) ELSE "none" IN
     IF k = "none"
     THEN /\ pc' = [pc EXCEPT ![p] = "done"]
          /\ result' = [result EXCEPT ![p] = Returned("void")]
          /\ ahead' = [aheadAfterDelete(srv[p]) EXCEPT ![p] = {}]
          /\ settle(tstate, towner, handlers, connected, toolSchemas, clients', ent)
          /\ UNCHANGED srv
     ELSE /\ srv' = [srv EXCEPT ![p] = k]
          /\ ahead' = [aheadAfterDelete(srv[p]) EXCEPT ![p] = @ \ {k}]
          /\ \E ts \in closeOutcomes(clients'[k]) :
               settle(ts, towner, handlers, connected, toolSchemas, clients', ent)
          /\ UNCHANGED <<pc, result>>
  /\ UNCHANGED <<nextT, op, lazy, tool, args, ent, tnew, lastErr, diag, nCalls, nConn, nOps>>

\* ------------------------------------------------------ transport signals
\* The transport ends by itself (the subprocess exits, the stream drops):
\* onclose, where connect has set it.
TransportExit(t) ==
  /\ tstate[t] = "open"
  /\ settle([tstate EXCEPT ![t] = "closed"], towner, handlers,
            IF handlers[t] THEN markDisconnected(towner[t]) ELSE connected,
            toolSchemas, clients, ent)
  /\ UNCHANGED <<clients, order, nextT, procVars, nOps>>

\* The transport reports an error and stays open: onerror, where set.
TransportError(t) ==
  /\ tstate[t] = "open"
  /\ connected' = IF handlers[t] THEN markDisconnected(towner[t]) ELSE connected
  /\ UNCHANGED <<clients, order, toolSchemas, transportVars, procVars, nOps>>

\* The onclose callback owed after transport.close() arrives.
CloseSignal(t) ==
  /\ tstate[t] = "closing"
  /\ settle([tstate EXCEPT ![t] = "closed"], towner, handlers,
            markDisconnected(towner[t]), toolSchemas, clients, ent)
  /\ UNCHANGED <<clients, order, nextT, procVars, nOps>>

\* The tools and arguments the callers of the pool model use.
PoolTools == {"weather"}
PoolArgs == {ArgsCityNumber}

Next ==
  \/ \E p \in Procs, s \in Servers : Connect(p, s)
  \/ \E p \in Procs : ConnectOk(p)
  \/ \E p \in Procs : ConnectFail(p)
  \/ \E p \in Procs, s \in Servers : ListTools(p, s)
  \/ \E p \in Procs : ListOk(p)
  \/ \E p \in Procs, err \in Errors : ListFail(p, err)
  \/ \E p \in Procs, s \in Servers, tl \in PoolTools, a \in PoolArgs : CallTool(p, s, tl, a)
  \/ \E p \in Procs, s \in Servers, tl \in PoolTools, a \in PoolArgs : Execute(p, s, tl, a)
  \/ \E p \in Procs, r \in {"ok", "isError"} : CallOk(p, r)
  \/ \E p \in Procs, err \in Errors : CallFail(p, err)
  \/ \E p \in Procs : ReconnectClosed(p)
  \/ \E p \in Procs, err \in Errors : RetryFail(p, err)
  \/ \E p \in Procs, s \in Servers : Close(p, s)
  \/ \E p \in Procs : CloseAll(p)
  \/ \E p \in Procs : CloseDone(p)
  \/ \E t \in TIds : TransportExit(t)
  \/ \E t \in TIds : TransportError(t)
  \/ \E t \in TIds : CloseSignal(t)

Spec == Init /\ [][Next]_vars

\* ------------------------------------------- the schema advisory on its own
\* A second specification for warnOnSchemaViolations: server s1 is connected
\* and discovered, its tool weather has any schema of SchemaSet on file (or
\* none), ping has none, and one caller invokes the tools with any arguments
\* of ArgSet.
RequiredSet ==
  {ReqAbsent, ReqNotIterable}
    \cup {ReqList(q) : q \in {<<>>, <<"city">>, <<"toString">>, <<"city", "toString">>}}

DeclKinds == {"string", "number", "integer", "boolean", "object", "array", "null", "notype"}

PropertiesSet ==
  {<<>>, <<Decl("toString", "string")>>, <<Decl("city", "string"), Decl("toString", "string")>>}
    \cup {<<Decl("city", d)>> : d \in DeclKinds}

SchemaSet ==
  {NoSchema}
    \cup {Schema(r, FALSE, <<>>) : r \in RequiredSet}
    \cup {Schema(r, TRUE, pr) : r \in RequiredSet, pr \in PropertiesSet}

ValueKinds == {"string", "number", "boolean", "object", "array", "null", "undefined"}

ArgSet ==
  {JsPrim(k) : k \in {"undefined", "null", "string", "number"}}
    \cup {JsArr}
    \cup {JsObj([f \in Fields |-> IF f = "city" THEN c ELSE t]) :
            c \in {"absent"} \cup ValueKinds, t \in {"absent", "string"}}

InitAdvisory ==
  /\ clients = [s \in Servers |-> IF s = "s1" THEN 1 ELSE 0]
  /\ order = <<"s1">>
  /\ tstate = [t \in TIds |-> IF t = 1 THEN "open" ELSE "none"]
  /\ towner = [t \in TIds |-> IF t = 1 THEN "s1" ELSE "none"]
  /\ handlers = [t \in TIds |-> t = 1]
  /\ connected = [t \in TIds |-> t = 1]
  /\ \E sch \in SchemaSet :
       toolSchemas = [t \in TIds |-> IF t = 1 THEN [EmptySchemas EXCEPT !["weather"] = sch]
                                     ELSE EmptySchemas]
  /\ nextT = 2
  /\ nOps = 0
  /\ pc = [p \in Procs |-> "idle"]
  /\ op = [p \in Procs |-> "none"]
  /\ lazy = [p \in Procs |-> FALSE]
  /\ srv = [p \in Procs |-> "none"]
  /\ tool = [p \in Procs |-> "none"]
  /\ args = [p \in Procs |-> JsPrim("undefined")]
  /\ ent = [p \in Procs |-> 0]
  /\ tnew = [p \in Procs |-> 0]
  /\ ahead = [p \in Procs |-> {}]
  /\ result = [p \in Procs |-> NoResult]
  /\ lastErr = [p \in Procs |-> "none"]
  /\ diag = [p \in Procs |-> <<>>]
  /\ nCalls = [p \in Procs |-> 0]
  /\ nConn = [p \in Procs |-> 0]

NextAdvisory ==
  \/ \E tl \in Tools, a \in ArgSet : CallTool(1, "s1", tl, a)
  \/ \E r \in {"ok", "isError"} : CallOk(1, r)
  \/ CallFail(1, "ToolError")

SpecAdvisory == InitAdvisory /\ [][NextAdvisory]_vars

\* ------------------------------------------------- the started service
\* A third specification for shutdown: the service has started (index.ts
\* start: connect and listTools for every configured server), and the callers
\* invoke tools (through the pool or through the entry points registered by
\* the start), close servers and stop the service; nobody calls connect.
InitStarted ==
  /\ clients = [s \in Servers |-> IF s = "s1" THEN 1 ELSE 2]
  /\ order = <<"s1", "s2">>
  /\ tstate = [t \in TIds |-> IF t \in {1, 2} THEN "open" ELSE "none"]
  /\ towner = [t \in TIds |-> IF t = 1 THEN "s1" ELSE IF t = 2 THEN "s2" ELSE "none"]
  /\ handlers = [t \in TIds |-> t = 1]
  /\ connected = [t \in TIds |-> t \in {1, 2}]
  /\ toolSchemas = [t \in TIds |->
                      IF t = 1 THEN storeSchemas(EmptySchemas, Discovery("s1"), 1)
                      ELSE IF t = 2 THEN storeSchemas(EmptySchemas, Discovery("s2"), 1)
                      ELSE EmptySchemas]
  /\ nextT = 3
  /\ nOps = 0
  /\ pc = [p \in Procs |-> "idle"]
  /\ op = [p \in Procs |-> "none"]
  /\ lazy = [p \in Procs |-> FALSE]
  /\ srv = [p \in Procs |-> "none"]
  /\ tool = [p \in Procs |-> "none"]
  /\ args = [p \in Procs |-> JsPrim("undefined")]
  /\ ent = [p \in Procs |-> 0]
  /\ tnew = [p \in Procs |-> 0]
  /\ ahead = [p \in Procs |-> {}]
  /\ result = [p \in Procs |-> NoResult]
  /\ lastErr = [p \in Procs |-> "none"]
  /\ diag = [p \in Procs |-> <<>>]
  /\ nCalls = [p \in Procs |-> 0]
  /\ nConn = [p \in Procs |-> 0]

NextStarted ==
  \/ \E p \in Procs, s \in Servers, tl \in PoolTools, a \in PoolArgs : CallTool(p, s, tl, a)
  \/ \E p \in Procs, s \in Servers, tl \in PoolTools, a \in PoolArgs : ExecuteLive(p, s, tl, a)
  \/ \E p \in Procs, r \in {"ok", "isError"} : CallOk(p, r)
  \/ \E p \in Procs, err \in Errors : CallFail(p, err)
  \/ \E p \in Procs : ReconnectClosed(p)
  \/ \E p \in Procs : ConnectOk(p)
  \/ \E p \in Procs : ConnectFail(p)
  \/ \E p \in Procs, err \in Errors : RetryFail(p, err)
  \/ \E p \in Procs, s \in Servers : Close(p, s)
  \/ \E p \in Procs : CloseAll(p)
  \/ \E p \in Procs : CloseDone(p)
  \/ \E t \in TIds : TransportExit(t)
  \/ \E t \in TIds : TransportError(t)
  \/ \E t \in TIds : CloseSignal(t)

SpecStarted == InitStarted /\ [][NextStarted]_vars

\* ============================================================ properties
\* C1: an invoke (callTool) issues at most two calls and makes at most one
\* connect, the one of its single reconnect, which comes only after its
\* first call has failed; when the retried call fails too, that second
\* failure is what the caller gets.
C1_AtMostOneRetry ==
  \A p \in Procs : op[p] = "callTool" =>
    /\ nCalls[p] <= 2
    /\ nConn[p] <= 1
    /\ nConn[p] = 1 => nCalls[p] >= 1
    /\ nCalls[p] = 2 => nConn[p] = 1
    /\ (pc[p] = "done" /\ nCalls[p] = 2 /\ result[p].threw) =>
         (lastErr[p] \in Errors /\ result[p] = Thrown(lastErr[p]))

\* An invoke whose first call failed, which reconnected, retried, and whose
\* retry failed as well.
C1_SecondFailurePropagated ==
  \E p \in Procs :
    /\ op[p] = "callTool" /\ pc[p] = "done"
    /\ nCalls[p] = 2 /\ nConn[p] = 1
    /\ result[p].threw /\ result[p].val \in Errors

\* C2: every transport that is open is the transport of the pool's entry for
\* its server: a transport that was replaced or removed has been closed.
C2_NoLeakedTransport ==
  \A t \in TIds : tstate[t] = "open" => clients[towner[t]] = t

\* C3 as stated: once the transport of a session has closed by itself and
\* no caller is at work, getStatus for its server says not connected.
C3_EverySignalSeen ==
  \A s \in Servers :
    (/\ clients[s] # 0
     /\ tstate[clients[s]] = "closed"
     /\ \A p \in Procs : pc[p] \in {"idle", "done"})
    => ~getStatus(s)

\* C3 for the subprocess transport: the step that completes a connect leaves
\* getStatus of the server connected, and every close or error signal of a
\* transport that has listeners (a stdio transport) leaves getStatus of its
\* server not connected, in that very step.
C3_SubprocessSignalSeen ==
  [][ \A s \in Servers :
        /\ \A p \in Procs :
             (ConnectOk(p) /\ towner[tnew[p]] = s) => getStatus(s)'
        /\ \A t \in TIds :
             (/\ handlers[t] /\ towner[t] = s
              /\ (TransportExit(t) \/ TransportError(t) \/ CloseSignal(t)))
               => ~getStatus(s)' ]_vars

\* The subprocess of a stdio session has exited and getStatus reports it.
C3_ExitReported ==
  \E s \in Servers :
    /\ TransportOf(s) = "stdio"
    /\ clients[s] # 0
    /\ tstate[clients[s]] = "closed"
    /\ ~getStatus(s)

\* C4: a server without an entry reports not connected, and an invoke or a
\* listTools on it ends at once with "Unknown server": no call is issued and
\* neither the pool nor any transport changes.
C4_UnknownServer ==
  [][ \A s \in Servers : clients[s] = 0 =>
        /\ ~getStatus(s)
        /\ \A p \in Procs :
             (ListTools(p, s) \/ \E tl \in Tools, a \in PoolArgs : CallTool(p, s, tl, a))
               => /\ pc'[p] = "done"
                  /\ result'[p] = Thrown("UnknownServer")
                  /\ nCalls'[p] = 0
                  /\ UNCHANGED <<poolVars, transportVars>> ]_vars

\* An invoke on a server the pool has no entry for has been refused.
C4_Refused ==
  \E p \in Procs :
    /\ op[p] = "callTool" /\ pc[p] = "done"
    /\ clients[srv[p]] = 0
    /\ result[p] = Thrown("UnknownServer")

\* C5 as stated: a first call that fails with an error outside the connection
\* class ends the invoke with that error, and a result carrying isError is
\* returned as data; neither makes a connect or touches a transport.
C5_NoReconnectOnOtherErrors ==
  [][ \A p \in Procs :
        /\ (\E err \in Errors : ~isConnectionError(err) /\ CallFail(p, err))
             => /\ pc'[p] = "done"
                /\ result'[p] = Thrown(lastErr'[p])
                /\ UNCHANGED <<nConn, clients, tstate, nextT>>
        /\ CallOk(p, "isError")
             => /\ result'[p] = Returned("isError")
                /\ UNCHANGED <<nConn, clients, tstate, nextT>> ]_vars

\* C5 for a session not marked disconnected: the same, when the entry the
\* invoke holds still has connected set at the time the call fails.
C5_NoReconnectWhileConnected ==
  [][ \A p \in Procs :
        /\ (\E err \in Errors :
              ~isConnectionError(err) /\ CallFail(p, err) /\ connected[ent[p]])
             => /\ pc'[p] = "done"
                /\ result'[p] = Thrown(lastErr'[p])
                /\ UNCHANGED <<nConn, clients, tstate, nextT>>
        /\ CallOk(p, "isError")
             => /\ result'[p] = Returned("isError")
                /\ UNCHANGED <<nConn, clients, tstate, nextT>> ]_vars

\* An invoke that ended with the tool's own error after one call and no
\* connect.
C5_ToolErrorPropagated ==
  \E p \in Procs :
    /\ op[p] = "callTool" /\ pc[p] = "done"
    /\ result[p] = Thrown("ToolError")
    /\ nCalls[p] = 1 /\ nConn[p] = 0

\* C6: an entry that enters the pool is a new object (its transport was in
\* its handshake, so it was never in the pool before) with an empty schema
\* table, whatever the entry it replaces has cached; and a schema table gets
\* its schemas only from a listTools on that entry's server that holds that
\* very entry.
C6_FreshEntryHasNoSchemas ==
  [][ /\ \A s \in Servers :
           (clients'[s] # clients[s] /\ clients'[s] # 0)
             => /\ tstate[clients'[s]] = "handshake"
                /\ toolSchemas'[clients'[s]] = EmptySchemas
      /\ \A t \in TIds :
           (toolSchemas'[t] # toolSchemas[t] /\ toolSchemas'[t] # EmptySchemas)
             => \E p \in Procs :
                  /\ pc[p] = "listing" /\ ent[p] = t /\ srv[p] = towner[t]
                  /\ ListOk(p) ]_vars

\* An invoke that found a schema on file when it started (it logged a
\* warning), has reconnected and now retries on the pool's new entry, which
\* has no schema on file.
C6_RetryOnEmptySchemas ==
  \E p \in Procs :
    /\ pc[p] = "retrying"
    /\ diag[p] # <<>>
    /\ clients[srv[p]] = ent[p]
    /\ toolSchemas[ent[p]] = EmptySchemas

\* C7: no server has two open transports at the same time.
C7_OneOpenTransportPerServer ==
  \A s \in Servers : Cardinality({t \in TIds : towner[t] = s /\ tstate[t] = "open"}) <= 1

\* C8: a step changes what the pool holds for a server b (its entry, the
\* entry's connected flag and schema table, the state of its transport,
\* getStatus) only if it is a step of a caller whose operation is on b (for
\* closeAll: the key it closes or moves on to) or a signal of a transport
\* created for b.
C8_ServersIsolated ==
  [][ \A b \in Servers :
        (\/ clients'[b] # clients[b]
         \/ getStatus(b)' # getStatus(b)
         \/ /\ clients[b] # 0
            /\ clients'[b] = clients[b]
            /\ \/ connected'[clients[b]] # connected[clients[b]]
               \/ toolSchemas'[clients[b]] # toolSchemas[clients[b]]
               \/ tstate'[clients[b]] # tstate[clients[b]])
        => \/ \E p \in Procs :
                /\ <<pc[p], op[p], srv[p], result[p], ent[p], tnew[p], nCalls[p]>>'
                     # <<pc[p], op[p], srv[p], result[p], ent[p], tnew[p], nCalls[p]>>
                /\ b \in {srv[p], srv'[p]}
           \/ \E t \in TIds :
                /\ towner[t] = b
                /\ TransportExit(t) \/ TransportError(t) \/ CloseSignal(t) ]_vars

\* Two callers in flight on two servers, one in its call and one in its
\* discovery, the session of one marked disconnected, the session of the
\* other still connected.
C8_OneDownOtherUp ==
  \E p \in Procs, q \in Procs :
    /\ pc[p] = "calling" /\ pc[q] = "listing"
    /\ srv[p] # srv[q]
    /\ clients[srv[p]] = ent[p] /\ clients[srv[q]] = ent[q]
    /\ ~getStatus(srv[p]) /\ getStatus(srv[q])

\* C9: an invoke on a server the pool has an entry for always issues its
\* call, whatever schema is on file and whatever the arguments are.
C9_CheckNeverBlocks ==
  \A p \in Procs :
    (op[p] = "callTool" /\ pc[p] = "done" /\ result[p] # Thrown("UnknownServer"))
      => nCalls[p] >= 1

\* C10: with a schema on file and arguments that are an object or an array,
\* the fields reported missing are exactly the required names that the
\* arguments do not carry; otherwise nothing is reported.
C10_MissingExactlyTheAbsent ==
  \A p \in Procs :
    (op[p] = "callTool" /\ pc[p] \in {"calling", "done"} /\ clients[srv[p]] # 0) =>
      LET schema == toolSchemas[clients[srv[p]]][tool[p]]
          names == schema.required.names
          absent == IF schema.onFile /\ args[p].tag \in {"object", "array"}
                    THEN {names[i] : i \in {j \in 1..Len(names) : args[p].own[names[j]] = "absent"}}
                    ELSE {}
          reported == {diag[p][i].field :
                         i \in {j \in 1..Len(diag[p]) : diag[p][j].kind = "missing"}}
      IN /\ reported = absent
         /\ (~schema.onFile \/ args[p].tag \notin {"object", "array"}) => diag[p] = <<>>

\* C11: once the advisory has run through, the fields it reports with a kind
\* mismatch are exactly the declared fields (declared string, number,
\* integer, boolean, object or array) that the arguments carry with a value
\* other than null/undefined whose kind differs from the declared kind,
\* integer counting as number.
C11_KindMismatchExactly ==
  \A p \in Procs :
    (op[p] = "callTool" /\ pc[p] = "calling" /\ clients[srv[p]] # 0) =>
      LET schema == toolSchemas[clients[srv[p]]][tool[p]]
          props == schema.properties
          kinds == {"string", "number", "integer", "boolean", "object", "array"}
          differs(i) ==
            /\ props[i].decl \in kinds
            /\ args[p].own[props[i].field] \notin {"absent", "null", "undefined"}
            /\ args[p].own[props[i].field]
                 # (IF props[i].decl = "integer" THEN "number" ELSE props[i].decl)
          expected == IF schema.onFile /\ schema.hasProps /\ args[p].tag \in {"object", "array"}
                      THEN {props[i].field : i \in {j \in 1..Len(props) : differs(j)}}
                      ELSE {}
          reported == {diag[p][i].field :
                         i \in {j \in 1..Len(diag[p]) : diag[p][j].kind = "mismatch"}}
      IN reported = expected

\* C12: close and closeAll never throw; the step of close after its await
\* removes the entry of its server whether the transport close resolved or
\* rejected; while closeAll runs, every server in the pool is the one it is
\* closing or one its iterator has yet to yield; and in the step in which
\* closeAll returns the pool is empty.
C12_CloseAlwaysRemoves ==
  [][ \A p \in Procs :
        /\ op'[p] \in {"close", "closeAll"} => ~result'[p].threw
        /\ CloseDone(p) => clients'[srv[p]] = 0
        /\ (op[p] = "closeAll" /\ pc[p] = "closing")
             => /\ {s \in Servers : clients[s] # 0} \subseteq (ahead[p] \cup {srv[p]})
                /\ pc'[p] = "done" => \A s \in Servers : clients'[s] = 0 ]_vars

\* closeAll alone has run over the two servers of the started service: the
\* close of the first transport rejected and left it open, the second got
\* closed, and the pool is empty.
C12_BothRemovedDespiteFailure ==
  \E p \in Procs :
    /\ op[p] = "closeAll" /\ pc[p] = "done" /\ nOps = 1
    /\ \A s \in Servers : clients[s] = 0
    /\ tstate[1] = "open" /\ tstate[2] = "closed"

\* C13: close on a server the pool has no entry for returns at once without
\* throwing and leaves the pool and every transport as they were; and after
\* close has run through, the pool has no entry for its server, so a second
\* close of that server is such a no-op.
C13_CloseIdempotent ==
  [][ \A p \in Procs, s \in Servers :
        /\ (Close(p, s) /\ clients[s] = 0)
             => /\ pc'[p] = "done"
                /\ result'[p] = Returned("void")
                /\ UNCHANGED <<poolVars, transportVars>>
        /\ (op[p] = "close" /\ srv[p] = s /\ pc[p] = "closing" /\ pc'[p] = "done")
             => clients'[s] = 0 ]_vars

\* Two closes of the same server have both returned and the pool has no
\* entry for it.
C13_ClosedTwice ==
  \E p \in Procs, q \in Procs :
    /\ p # q
    /\ op[p] = "close" /\ op[q] = "close" /\ srv[p] = srv[q]
    /\ pc[p] = "done" /\ pc[q] = "done"
    /\ result[p] = Returned("void") /\ result[q] = Returned("void")
    /\ clients[srv[p]] = 0

\* C14: a tool entry point of the host, whether registered from the cached
\* record or after a live discovery, starts with a connect (followed by the
\* rediscovery) when getStatus of its server says not connected, and goes
\* straight to the invoke when it says connected.
C14_EntryPointsConnectLazily ==
  [][ \A p \in Procs, s \in Servers :
        (\E tl \in PoolTools, a \in PoolArgs :
           Execute(p, s, tl, a) \/ ExecuteLive(p, s, tl, a))
          => IF getStatus(s)
             THEN pc'[p] \in {"calling", "done"} /\ nConn'[p] = 0
             ELSE pc'[p] = "connecting" /\ lazy'[p] /\ nConn'[p] = 1 ]_vars

\* C15: when an invoke that went into its reconnect ends with the pool
\* holding no entry for its server (the entry was already gone when the
\* reconnect began, or the connect of the reconnect failed), it throws
\* "Failed to reconnect" and has issued no further call.
C15_ReconnectFailedError ==
  [][ \A p \in Procs :
        (/\ op[p] = "callTool"
         /\ pc'[p] = "done"
         /\ \/ pc[p] = "rc_connecting"
            \/ /\ pc[p] = "calling"
               /\ lastErr'[p] # "none"
               /\ shouldReconnect(connected[ent[p]], lastErr'[p])
         /\ clients'[srv[p]] = 0)
        => /\ result'[p] = Thrown("ReconnectFailed")
           /\ nCalls'[p] = nCalls[p] ]_vars

C17_SignalFrame ==
  [][ \A t \in TIds :
        (TransportExit(t) \/ TransportError(t) \/ CloseSignal(t))
          => /\ UNCHANGED <<clients, order, toolSchemas, nextT, procVars, nOps>>
             /\ \A u \in TIds :
                  /\ connected'[u] => connected[u]
                  /\ u # t => tstate'[u] = tstate[u]
                  /\ tstate'[u] # "closed" => (towner'[u] = towner[u] /\ handlers'[u] = handlers[u]) ]_vars

\* A signal has arrived during an invoke in flight: the entry the invoke
\* holds is in the pool, marked disconnected, with its schemas still on file.
C17_MarkedDuringInvoke ==
  \E p \in Procs :
    /\ pc[p] = "calling"
    /\ clients[srv[p]] = ent[p]
    /\ ~connected[ent[p]]
    /\ toolSchemas[ent[p]] # EmptySchemas

\* C18: the connected flag of the entry the pool holds for a server goes from
\* true to false only in a step that is a close or error signal of that
\* entry's own transport.
C18_NoStaleDisconnect ==
  [][ \A s \in Servers, t \in TIds :
        (clients[s] = t /\ clients'[s] = t /\ connected[t] /\ ~connected'[t])
          => (TransportExit(t) \/ TransportError(t) \/ CloseSignal(t)) ]_vars

\* C19: the close that begins the reconnect of an invoke whose call failed
\* changes the state of no transport but the one of the entry that invoke
\* holds, so it closes no session another invoke has stored since.
C19_ReconnectClosesOwnSession ==
  [][ \A p \in Procs :
        (pc[p] = "calling" /\ pc'[p] = "rc_closing")
          => \A t \in TIds : tstate'[t] # tstate[t] => t = ent[p] ]_vars

\* C20: once a close or closeAll that ran while the service was up has
\* returned and no caller is at work any more, the pool has no entry for the
\* server closed (for closeAll: for any server).
C20_ShutdownFinal ==
  \A q \in Procs :
    (/\ op[q] \in {"close", "closeAll"}
     /\ \A p \in Procs : pc[p] \in {"idle", "done"})
    => \A s \in Servers : (op[q] = "closeAll" \/ s = srv[q]) => clients[s] = 0

====
